---- MODULE Spec2Model ----
(***************************************************************************)
(* Model of packages/dwg/wasm/wrapper.c: the exported function             *)
(*   int convert(const char* input_path, const char* output_path)          *)
(* stepped one statement at a time.  The LibreDWG calls (dwg_read_file,    *)
(* dwg_write_dxf, dwg_free) and the MEMFS fopen/fclose are external; their *)
(* outcomes are inputs of the model.  The library is deterministic on the  *)
(* bytes it is given: the outcome chosen for a file is kept in `lib` and   *)
(* reused while the next call reads the same bytes.                        *)
(***************************************************************************)
EXTENDS Integers, Sequences, FiniteSets, TLC

VARIABLES pc, input_path, output_path, dwg, error, dat, ret, fs, lib,
          nFree, nOpen, nClose, wrote, misuse, trace, cur, prev

vars == <<pc, input_path, output_path, dwg, error, dat, ret, fs, lib,
          nFree, nOpen, nClose, wrote, misuse, trace, cur, prev>>

\* ---------------------------------------------------------------- bounds
\* Number of distinct DWG byte strings the host bridge may stage.
MaxStaged == 2

\* ------------------------------------------------------------- constants
\* dwg.h: DWG_ERR_CRITICAL = DWG_ERR_CLASSESNOTFOUND = 128
DWG_ERR_CRITICAL == 128

\* Codes dwg_read_file / dwg_write_dxf may hand back: success, the code whose
\* value is 1 (DWG_ERR_WRONGCRC), another warning, the threshold itself, and one above it.
ErrorCodes == {0, 1, 64, DWG_ERR_CRITICAL, 2048}

\* Paths of the MEMFS; the last one has a missing directory component.
Paths == {"/in.dwg", "/out.dxf", "/nodir/out.dxf"}
WritablePaths == {"/in.dwg", "/out.dxf"}
\* Arguments the bridge passes; "/out.dxf" as input aliases the output.
InPaths == {"/in.dwg", "/out.dxf"}
OutPaths == {"/out.dxf", "/nodir/out.dxf"}

Absent == [exists |-> FALSE, bytes |-> <<>>]
File(b) == [exists |-> TRUE, bytes |-> b]

\* Bytes the host bridge stages, and bytes the DXF writer may emit.
StagedBytes == { <<i>> : i \in 1..MaxStaged }
WrittenBytes == {<<>>, <<1>>}

\* Dwg_Data header versions (Dwg_Version_Type values)
Versions == {1, 2}

ZeroDwg == [st |-> "zero", version |-> 0, from_version |-> 0]
ZeroDat == [version |-> 0, from_version |-> 0, fh |-> "NULL"]

StaleDwg == [st |-> "stale", version |-> 0, from_version |-> 0]

NoLib == [valid |-> FALSE, src |-> Absent, rc |-> 0, version |-> 0,
          from_version |-> 0, wvalid |-> FALSE, wc |-> 0, wb |-> <<>>]

\* What the current call saw and left in the filesystem, and the result of
\* the call before it when that call had the same arguments and files.
NoCall == [valid |-> FALSE, inBytes |-> Absent, outBefore |-> Absent,
           outAfter |-> Absent]
NoPrev == [valid |-> FALSE, ret |-> 0, outAfter |-> Absent]

\* ------------------------------------------------------------------ Init
Init ==
    /\ pc = "idle"
    /\ input_path = "/in.dwg"
    /\ output_path = "/out.dxf"
    /\ dwg = StaleDwg
    /\ error = 0
    /\ dat = ZeroDat
    /\ ret = 0
    /\ fs = [p \in Paths |-> Absent]
    /\ lib = NoLib
    /\ nFree = 0 /\ nOpen = 0 /\ nClose = 0
    /\ wrote = FALSE
    /\ misuse = FALSE
    /\ trace = <<>>
    /\ cur = NoCall
    /\ prev = NoPrev

\* -------------------------------------------------------- the host bridge
\* convert.ts writes DWG bytes to MEMFS before calling convert.
Stage(p, b) ==
    /\ pc \in {"idle", "returned"}
    /\ fs' = [fs EXCEPT ![p] = File(b)]
    /\ pc' = "idle"
    /\ UNCHANGED <<input_path, output_path, dwg, error, dat, ret, lib,
                   nFree, nOpen, nClose, wrote, misuse, trace, cur, prev>>

\* The bridge enters convert(input_path, output_path); line 31 declares dwg,
\* which holds whatever the stack slot held.
Call(inp, out) ==
    /\ pc \in {"idle", "returned"}
    /\ input_path' = inp
    /\ output_path' = out
    /\ dwg' = StaleDwg
    /\ pc' = "L32"
    /\ nFree' = 0 /\ nOpen' = 0 /\ nClose' = 0
    /\ wrote' = FALSE
    /\ misuse' = FALSE
    /\ trace' = <<>>
    /\ prev' = IF /\ cur.valid
                   /\ inp = input_path /\ out = output_path
                   /\ fs[inp] = cur.inBytes /\ fs[out] = cur.outAfter
                THEN [valid |-> TRUE, ret |-> ret, outAfter |-> cur.outAfter]
                ELSE NoPrev
    /\ cur' = [valid |-> TRUE, inBytes |-> fs[inp],
               outBefore |-> fs[out], outAfter |-> fs[out]]
    /\ UNCHANGED <<error, dat, ret, fs, lib>>

\* ------------------------------------------------------------- convert()
\* Variant: the memset is left out, dwg keeps what the stack slot held.
MemsetSkipped ==
    /\ pc = "L32"
    /\ pc' = "L35"
    /\ UNCHANGED <<input_path, output_path, dwg, error, dat, ret, fs, lib,
                   nFree, nOpen, nClose, wrote, misuse, trace, cur, prev>>

\* line 32: memset(&dwg, 0, sizeof(Dwg_Data));
Memset ==
    /\ pc = "L32"
    /\ dwg' = ZeroDwg
    /\ trace' = Append(trace, "memset")
    /\ pc' = "L35"
    /\ UNCHANGED <<input_path, output_path, error, dat, ret, fs, lib,
                   nFree, nOpen, nClose, wrote, misuse, cur, prev>>

\* The outcome of the library on the bytes at the input path: the one it gave
\* for the same bytes before, otherwise any.  Reading into a drawing object
\* that was not zeroed is outside the library's contract: any outcome.
ReadOutcomes(src, d) ==
    IF lib.valid /\ lib.src = src /\ d.st = "zero"
    THEN {lib}
    ELSE { [valid |-> TRUE, src |-> src, rc |-> r, version |-> v,
            from_version |-> f, wvalid |-> FALSE, wc |-> 0, wb |-> <<>>] :
              r \in ErrorCodes, v \in Versions, f \in Versions }

\* The outcome of the DXF writer on the drawing read from lib.src: the one it
\* gave for that drawing before, otherwise any code and any bytes.
WriteOutcomes ==
    IF lib.wvalid
    THEN {lib}
    ELSE { [lib EXCEPT !.wvalid = TRUE, !.wc = w, !.wb = b] :
              w \in ErrorCodes, b \in WrittenBytes }

\* line 35: int error = dwg_read_file(input_path, &dwg);
ReadFile ==
    /\ pc = "L35"
    /\ \E o \in ReadOutcomes(fs[input_path], dwg) :
         /\ lib' = o
         /\ error' = o.rc
         /\ dwg' = [st |-> "loaded", version |-> o.version,
                    from_version |-> o.from_version]
    /\ misuse' = (misuse \/ dwg.st # "zero")
    /\ trace' = Append(trace, "read")
    /\ pc' = "L36"
    /\ UNCHANGED <<input_path, output_path, dat, ret, fs,
                   nFree, nOpen, nClose, wrote, cur, prev>>

\* Variant: no early return on a critical read code.
CheckCriticalFallThrough ==
    /\ pc = "L36"
    /\ pc' = "L42"
    /\ UNCHANGED <<input_path, output_path, dwg, error, dat, ret, fs, lib,
                   nFree, nOpen, nClose, wrote, misuse, trace, cur, prev>>

\* line 36: if (error > DWG_ERR_CRITICAL)
CheckCritical ==
    /\ pc = "L36"
    /\ pc' = IF error > DWG_ERR_CRITICAL THEN "L37" ELSE "L42"
    /\ UNCHANGED <<input_path, output_path, dwg, error, dat, ret, fs, lib,
                   nFree, nOpen, nClose, wrote, misuse, trace, cur, prev>>

\* dwg_free(&dwg) at lines 37, 47 and 55
DwgFree(from, to) ==
    /\ pc = from
    /\ misuse' = (misuse \/ dwg.st = "freed")
    /\ dwg' = [dwg EXCEPT !.st = "freed"]
    /\ nFree' = nFree + 1
    /\ trace' = Append(trace, "free")
    /\ pc' = to
    /\ UNCHANGED <<input_path, output_path, error, dat, ret, fs, lib,
                   nOpen, nClose, wrote, cur, prev>>

\* return <v>; at lines 38, 48 and 56
ReturnValue(from, v) ==
    /\ pc = from
    /\ ret' = v
    /\ cur' = [cur EXCEPT !.outAfter = fs[output_path]]
    /\ trace' = Append(trace, "return")
    /\ pc' = "returned"
    \* the activation ends: its locals are gone
    /\ dwg' = StaleDwg /\ error' = 0 /\ dat' = ZeroDat
    /\ UNCHANGED <<input_path, output_path, fs, lib,
                   nFree, nOpen, nClose, wrote, misuse, prev>>

\* line 37
FreeCritical == DwgFree("L37", "L38")

\* line 38: return error;
ReturnCritical == ReturnValue("L38", error)

\* line 42: Bit_Chain dat = { 0 };
InitDat ==
    /\ pc = "L42"
    /\ dat' = ZeroDat
    /\ pc' = "L43"
    /\ UNCHANGED <<input_path, output_path, dwg, error, ret, fs, lib,
                   nFree, nOpen, nClose, wrote, misuse, trace, cur, prev>>

\* Variant: the target version is taken from the source-version field.
SetVersionFromSource ==
    /\ pc = "L43"
    /\ dat' = [dat EXCEPT !.version = dwg.from_version]
    /\ misuse' = (misuse \/ dwg.st = "freed")
    /\ trace' = Append(trace, "version")
    /\ pc' = "L44"
    /\ UNCHANGED <<input_path, output_path, dwg, error, ret, fs, lib,
                   nFree, nOpen, nClose, wrote, cur, prev>>

\* line 43: dat.version = dwg.header.version;
SetVersion ==
    /\ pc = "L43"
    /\ dat' = [dat EXCEPT !.version = dwg.version]
    /\ misuse' = (misuse \/ dwg.st = "freed")
    /\ trace' = Append(trace, "version")
    /\ pc' = "L44"
    /\ UNCHANGED <<input_path, output_path, dwg, error, ret, fs, lib,
                   nFree, nOpen, nClose, wrote, cur, prev>>

\* line 44: dat.from_version = dwg.header.from_version;
SetFromVersion ==
    /\ pc = "L44"
    /\ dat' = [dat EXCEPT !.from_version = dwg.from_version]
    /\ misuse' = (misuse \/ dwg.st = "freed")
    /\ trace' = Append(trace, "from_version")
    /\ pc' = "L45"
    /\ UNCHANGED <<input_path, output_path, dwg, error, ret, fs, lib,
                   nFree, nOpen, nClose, wrote, cur, prev>>

\* Variant: the output is opened with "ab", which keeps the old bytes.
FopenAppend ==
    /\ pc = "L45"
    /\ IF output_path \in WritablePaths
       THEN /\ fs' = [fs EXCEPT ![output_path] = File(fs[output_path].bytes)]
            /\ dat' = [dat EXCEPT !.fh = "open"]
            /\ nOpen' = nOpen + 1
       ELSE /\ dat' = [dat EXCEPT !.fh = "NULL"]
            /\ UNCHANGED <<fs, nOpen>>
    /\ trace' = Append(trace, "fopen")
    /\ pc' = "L46"
    /\ UNCHANGED <<input_path, output_path, dwg, error, ret, lib,
                   nFree, nClose, wrote, misuse, cur, prev>>

\* line 45: dat.fh = fopen(output_path, "wb");
\* "wb" creates the file or truncates it to length zero; the open fails when
\* a directory component of the path is missing.
Fopen ==
    /\ pc = "L45"
    /\ IF output_path \in WritablePaths
       THEN /\ fs' = [fs EXCEPT ![output_path] = File(<<>>)]
            /\ dat' = [dat EXCEPT !.fh = "open"]
            /\ nOpen' = nOpen + 1
       ELSE /\ dat' = [dat EXCEPT !.fh = "NULL"]
            /\ UNCHANGED <<fs, nOpen>>
    /\ trace' = Append(trace, "fopen")
    /\ pc' = "L46"
    /\ UNCHANGED <<input_path, output_path, dwg, error, ret, lib,
                   nFree, nClose, wrote, misuse, cur, prev>>

\* Variant: the handle is not tested.
CheckFhMissing ==
    /\ pc = "L46"
    /\ pc' = "L52"
    /\ UNCHANGED <<input_path, output_path, dwg, error, dat, ret, fs, lib,
                   nFree, nOpen, nClose, wrote, misuse, trace, cur, prev>>

\* line 46: if (!dat.fh)
CheckFh ==
    /\ pc = "L46"
    /\ pc' = IF dat.fh = "NULL" THEN "L47" ELSE "L52"
    /\ UNCHANGED <<input_path, output_path, dwg, error, dat, ret, fs, lib,
                   nFree, nOpen, nClose, wrote, misuse, trace, cur, prev>>

\* Variant: the open-failure exit forgets dwg_free.
FreeOpenFailLeak ==
    /\ pc = "L47"
    /\ pc' = "L48"
    /\ UNCHANGED <<input_path, output_path, dwg, error, dat, ret, fs, lib,
                   nFree, nOpen, nClose, wrote, misuse, trace, cur, prev>>

\* line 47
FreeOpenFail == DwgFree("L47", "L48")

\* Variant: the open failure is reported with a library I/O error code.
ReturnIoError == ReturnValue("L48", 2048)

\* line 48: return 1;
ReturnOne == ReturnValue("L48", 1)

\* Variant: the result of dwg_write_dxf is not assigned to error.
WriteDxfDiscard ==
    /\ pc = "L52"
    /\ \E o \in WriteOutcomes :
         /\ lib' = o
         /\ fs' = IF dat.fh = "open"
                  THEN [fs EXCEPT ![output_path] =
                           File(fs[output_path].bytes \o o.wb)]
                  ELSE fs
    /\ wrote' = TRUE
    /\ misuse' = (misuse \/ dwg.st # "loaded" \/ dat.fh # "open")
    /\ trace' = Append(trace, "write")
    /\ pc' = "L54"
    /\ UNCHANGED <<input_path, output_path, dwg, error, dat, ret,
                   nFree, nOpen, nClose, cur, prev>>

\* line 52: error = dwg_write_dxf(&dat, &dwg);
\* The writer emits its bytes through dat.fh; with no usable handle nothing
\* reaches the file.
WriteDxf ==
    /\ pc = "L52"
    /\ \E o \in WriteOutcomes :
         /\ lib' = o
         /\ error' = o.wc
         /\ fs' = IF dat.fh = "open"
                  THEN [fs EXCEPT ![output_path] =
                           File(fs[output_path].bytes \o o.wb)]
                  ELSE fs
    /\ wrote' = TRUE
    /\ misuse' = (misuse \/ dwg.st # "loaded" \/ dat.fh # "open")
    /\ trace' = Append(trace, "write")
    /\ pc' = "L54"
    /\ UNCHANGED <<input_path, output_path, dwg, dat, ret,
                   nFree, nOpen, nClose, cur, prev>>

\* line 54: fclose(dat.fh);
Fclose ==
    /\ pc = "L54"
    /\ misuse' = (misuse \/ dat.fh # "open")
    /\ dat' = [dat EXCEPT !.fh = "closed"]
    /\ nClose' = nClose + 1
    /\ trace' = Append(trace, "fclose")
    /\ pc' = "L55"
    /\ UNCHANGED <<input_path, output_path, dwg, error, ret, fs, lib,
                   nFree, nOpen, wrote, cur, prev>>

\* line 55
FreeEnd == DwgFree("L55", "L56")

\* Variant: the final code is collapsed to a flag.
ReturnFlag == ReturnValue("L56", IF error = 0 THEN 0 ELSE 1)

\* line 56: return error;
ReturnError == ReturnValue("L56", error)

Next ==
    \/ \E b \in StagedBytes : Stage("/in.dwg", b)
    \/ \E inp \in InPaths, out \in OutPaths : Call(inp, out)
    \/ Memset
    \/ ReadFile
    \/ CheckCritical
    \/ FreeCritical
    \/ ReturnCritical
    \/ InitDat
    \/ SetVersion
    \/ SetFromVersion
    \/ Fopen
    \/ CheckFh
    \/ FreeOpenFail
    \/ ReturnOne
    \/ WriteDxf
    \/ Fclose
    \/ FreeEnd
    \/ ReturnError

Spec == Init /\ [][Next]_vars

\* ------------------------------------------------------------ properties
InTrace(e) == \E i \in 1..Len(trace) : trace[i] = e
\* every occurrence of b has an occurrence of a before it
Before(a, b) ==
    \A j \in 1..Len(trace) : trace[j] = b => \E i \in 1..(j - 1) : trace[i] = a
\* nothing of S happens after a
NoneAfter(a, S) ==
    \A i \in 1..Len(trace) : \A j \in (i + 1)..Len(trace) :
        trace[i] = a => trace[j] \notin S
Count(e) == Cardinality({ i \in 1..Len(trace) : trace[i] = e })

Returned == pc = "returned"
AboutToReturn == pc \in {"L38", "L48", "L56"}
ReadCode == lib.rc
WriteCode == lib.wc
ReadDone == pc \notin {"idle", "L32", "L35"}
OpenFailed == ReadDone /\ InTrace("fopen") /\ nOpen = 0
OpenOk == ReadDone /\ InTrace("fopen") /\ nOpen = 1
OutputUntouched == fs[output_path] = cur.outBefore

\* C1: when convert returns, whatever the read code, the open outcome and the
\* write code were, the drawing object has been released exactly once and
\* every handle that was opened has been closed exactly once; no return
\* statement is reached with the handle open or the drawing unreleased.
C1_Cleanup ==
    /\ (Returned \/ AboutToReturn) =>
          /\ nFree = 1
          /\ nClose = nOpen
          /\ Count("free") = 1
          /\ Count("fclose") = Count("fopen") - (IF OpenFailed THEN 1 ELSE 0)
    /\ AboutToReturn => dwg.st = "freed" /\ dat.fh # "open"

C1_Witness ==
    Returned /\ nOpen = 1 /\ nClose = 1 /\ nFree = 1 /\ wrote

\* C2: when the read stage returns a code above the critical threshold,
\* convert returns exactly that code, never opens or writes the output path
\* and never invokes the write stage; the file at the output path is what it
\* was before the call.
C2_CriticalRead ==
    (ReadDone /\ ReadCode > DWG_ERR_CRITICAL) =>
        /\ nOpen = 0
        /\ ~InTrace("fopen")
        /\ ~wrote
        /\ OutputUntouched
        /\ Returned => ret = ReadCode

C2_Witness ==
    Returned /\ ReadCode = 2048 /\ ret = 2048 /\ fs[output_path].exists

\* C3: when the read code is at or below the threshold and the open of the
\* output path fails, convert returns 1, never invokes the write stage, never
\* closes a handle, and has released the drawing object when it returns.
C3_OpenFailure ==
    (OpenFailed /\ ReadCode <= DWG_ERR_CRITICAL) =>
        /\ ~wrote
        /\ nClose = 0
        /\ ~InTrace("fclose")
        /\ Returned => ret = 1 /\ nFree = 1 /\ Before("free", "return")

C3_Witness ==
    Returned /\ OpenFailed /\ ReadCode = 64 /\ ret = 1 /\ nFree = 1

\* C4 (as stated): every non-success is surfaced: a non-zero read code, a
\* failed open or a non-zero write code makes convert return non-zero, and
\* convert returns 0 only when the read code was 0, the open succeeded and
\* the write code was 0.
C4_AsStated ==
    Returned =>
        /\ (ReadCode # 0 \/ OpenFailed \/ (wrote /\ WriteCode # 0)) => ret # 0
        /\ ret = 0 => ReadCode = 0 /\ OpenOk /\ wrote /\ WriteCode = 0

\* C4 (amended): a read code above the critical threshold, a failed open or
\* a non-zero write code makes convert return non-zero; convert returns 0
\* only when the read code was at or below the threshold, the open succeeded
\* and the write code was 0.  A read code in 1..threshold is not surfaced.
C4_Surfaced ==
    Returned =>
        /\ (ReadCode > DWG_ERR_CRITICAL \/ OpenFailed \/ (wrote /\ WriteCode # 0))
              => ret # 0
        /\ ret = 0 =>
              ReadCode <= DWG_ERR_CRITICAL /\ OpenOk /\ wrote /\ WriteCode = 0

C4_Witness ==
    Returned /\ ReadCode = 64 /\ OpenOk /\ wrote /\ WriteCode = 0 /\ ret = 0

\* C5 (as stated): convert returns 1 exactly when the open of the output path
\* failed, for every code of the read and write stages, the code 1 included.
C5_OneIsReserved ==
    Returned => (ret = 1 <=> OpenFailed)

\* C6 (as stated): whenever convert returns a value above the critical
\* threshold, that value is the read stage's code and the output path was
\* not opened or created during the call.
C6_AsStated ==
    (Returned /\ ret > DWG_ERR_CRITICAL) =>
        /\ ReadCode = ret
        /\ nOpen = 0
        /\ OutputUntouched

\* C6 (amended): whenever convert returns a value above the critical
\* threshold, either it is the read stage's code and the output path was not
\* opened, or the read code was at or below the threshold, the output path
\* was opened (created or truncated) and the value is the write stage's code.
C6_CriticalReturn ==
    (Returned /\ ret > DWG_ERR_CRITICAL) =>
        \/ /\ ReadCode > DWG_ERR_CRITICAL /\ ReadCode = ret
           /\ nOpen = 0 /\ ~wrote /\ OutputUntouched
        \/ /\ ReadCode <= DWG_ERR_CRITICAL
           /\ OpenOk /\ wrote /\ WriteCode = ret

C6_Witness ==
    Returned /\ ret = 2048 /\ ReadCode = 1 /\ OpenOk /\ wrote /\ WriteCode = 2048

\* C7: when the read code is at or below the threshold and the open
\* succeeds, convert returns exactly the write stage's code, whatever the
\* read code was; on every path the value returned is 0, 1 or a code the
\* read or write stage produced.
C7_Passthrough ==
    Returned =>
        /\ (ReadCode <= DWG_ERR_CRITICAL /\ OpenOk) => wrote /\ ret = WriteCode
        /\ ret \in {0, 1, ReadCode} \cup (IF wrote THEN {WriteCode} ELSE {})

C7_Witness ==
    Returned /\ ReadCode = 1 /\ OpenOk /\ wrote /\ WriteCode = 128 /\ ret = 128

\* C8 (as stated): whenever the read code is at or below the threshold,
\* convert leaves a non-empty file at the output path and returns a code at
\* or below the threshold.
C8_AsStated ==
    (Returned /\ ReadCode <= DWG_ERR_CRITICAL) =>
        /\ fs[output_path].exists
        /\ Len(fs[output_path].bytes) > 0
        /\ ret <= DWG_ERR_CRITICAL

\* C8 (amended): whenever the read code is at or below the threshold and the
\* open of the output path succeeds, convert leaves a file at the output path
\* holding exactly the bytes the write stage emitted (non-empty exactly when
\* it emitted any) and returns the write stage's code (at or below the
\* threshold exactly when that code is).
C8_RoundTrip ==
    (Returned /\ ReadCode <= DWG_ERR_CRITICAL /\ OpenOk) =>
        /\ fs[output_path] = File(lib.wb)
        /\ ret = WriteCode

C8_Witness ==
    /\ Returned /\ ReadCode = 0 /\ OpenOk /\ ret = 0
    /\ cur.outBefore.exists /\ Len(cur.outBefore.bytes) > 0
    /\ Len(fs[output_path].bytes) > 0

\* C9: a call that repeats the previous call (same paths, same bytes at the
\* input path, output path as the previous call left it) returns the same
\* code and leaves the same bytes at the output path: the output is
\* overwritten, not appended to, and nothing of the first call is reused.
C9_Idempotent ==
    (Returned /\ prev.valid) =>
        /\ ret = prev.ret
        /\ fs[output_path] = prev.outAfter

C9_Witness ==
    /\ Returned /\ prev.valid /\ OpenOk /\ wrote
    /\ Len(fs[output_path].bytes) > 0
    /\ input_path # output_path

\* C10: within a call the drawing object is zeroed before the read stage; the
\* read stage is over before the output path is opened; the sink's version
\* fields are copied from the drawing header after the read and before the
\* write; the handle is closed after the write and before the drawing object
\* is released; nothing touches the drawing object after its release or the
\* handle after its close.
C10_Ordering ==
    /\ Before("memset", "read")
    /\ (pc = "L35" => dwg = ZeroDwg)
    /\ Before("read", "fopen")
    /\ Before("read", "version") /\ Before("read", "from_version")
    /\ Before("version", "write") /\ Before("from_version", "write")
    /\ (pc = "L52" => /\ dat.version = dwg.version
                      /\ dat.from_version = dwg.from_version
                      /\ dat.version = lib.version
                      /\ dat.from_version = lib.from_version)
    /\ Before("write", "fclose")
    /\ (InTrace("fclose") => Before("fclose", "free"))
    /\ NoneAfter("free", {"memset", "read", "version", "from_version",
                          "write", "free"})
    /\ NoneAfter("fclose", {"write", "fclose", "fopen"})
    /\ ~misuse

C10_Witness ==
    /\ Returned
    /\ trace = <<"memset", "read", "version", "from_version", "fopen",
                 "write", "fclose", "free", "return">>
    /\ lib.version # lib.from_version

TypeOK ==
    /\ pc \in {"idle", "returned", "L32", "L35", "L36", "L37", "L38", "L42",
               "L43", "L44", "L45", "L46", "L47", "L48", "L52", "L54", "L55",
               "L56"}
    /\ input_path \in Paths /\ output_path \in Paths
    /\ error \in ErrorCodes
    /\ ret \in ErrorCodes
    /\ fs["/nodir/out.dxf"] = Absent
====
